---- MODULE Spec2Model ----
(***************************************************************************)
(* Policy-governed query mediation (permission_control).                   *)
(*                                                                         *)
(* The module models                                                       *)
(*   - PermissionController.check_query and its two caches                 *)
(*     (data/permission_controller.py),                                    *)
(*   - PolicyManager's write methods and the per-tenant write lock         *)
(*     (data/policy_manager.py),                                           *)
(*   - the administrative routes create_policy / update_policy /           *)
(*     upload_file (api/policy_routes.py),                                 *)
(*   - the self-correction loop _generate_rego_with_self_correction.       *)
(*                                                                         *)
(* Scheduling: everything runs on one asyncio event loop.  A coroutine     *)
(* keeps the loop until it awaits something that really suspends: an       *)
(* oracle call (acompletion) or the acquisition of an asyncio.Lock that    *)
(* is held or has waiters.  open()/read()/write() and the OPA client are   *)
(* synchronous calls and do not suspend.  The variable running holds the   *)
(* coroutine that owns the loop; NoProc means the loop is free to resume   *)
(* any ready coroutine.                                                    *)
(***************************************************************************)
EXTENDS Naturals, Sequences, FiniteSets, TLC

\* ------------------------------------------------------------------------
\* Bounds of the model
\* ------------------------------------------------------------------------
MaxColLen == 2        \* longest column list the oracle / evaluator returns
MaxReplyLen == 2      \* longest rewrite reply, in characters
MaxBattery == 1       \* largest test battery the oracle generates

Tenants == {"t1"}
Users == {"u1", "u2"}
Columns == {"c1", "c2"}
Checkers == {"q1", "q2"}
Admins == {"a1", "a2"}
NoProc == "none"

\* ------------------------------------------------------------------------
\* Values
\* ------------------------------------------------------------------------
RECURSIVE SeqsUpTo(_, _)
\* all sequences over S of length <= n
SeqsUpTo(S, n) ==
    IF n = 0 THEN {<<>>}
    ELSE LET shorter == SeqsUpTo(S, n - 1)
         IN shorter \cup {Append(s, x) : s \in {t \in shorter : Len(t) = n - 1}, x \in S}

\* A JSON value found under a "columns"-like key: the key is missing, holds
\* null, holds a list of strings, or holds a list with a non-hashable member
\* (a nested list or object).
ColVal(tag, items) == [tag |-> tag, items |-> items]
ColVals ==
    {ColVal("missing", <<>>), ColVal("null", <<>>), ColVal("unhashable", <<>>)}
    \cup {ColVal("list", s) : s \in SeqsUpTo(Columns, MaxColLen)}

\* dict.get(key, []) : the default replaces a missing key only, not a null
GetOrEmptyList(v) == IF v.tag = "missing" THEN ColVal("list", <<>>) ELSE v

\* Python set(x): TypeError for None and for non-hashable members
SetRaises(v) == v.tag \in {"null", "unhashable"}
SetOf(v) == {v.items[i] : i \in 1..Len(v.items)}

\* Python bool(row_constraints) after dict.get("row_constraints", {})
RowVals == {"missing", "null", "empty", "nonempty"}
RowTruthy(rc) == rc = "nonempty"

\* text: a sequence of characters; "w" a word character, " " white space,
\* "q" a quote character (" or '), "n" a line feed
Chars == {"w", " ", "q", "n"}
RECURSIVE LStrip(_, _)
LStrip(s, drop) ==
    IF s # <<>> /\ Head(s) \in drop THEN LStrip(Tail(s), drop) ELSE s
RECURSIVE RStrip(_, _)
RStrip(s, drop) ==
    IF s # <<>> /\ s[Len(s)] \in drop THEN RStrip(SubSeq(s, 1, Len(s) - 1), drop) ELSE s
Strip(s, drop) == RStrip(LStrip(s, drop), drop)
WhiteSpace == {" ", "n"}
RECURSIVE FirstLine(_)
\* s.split("\n")[0]
FirstLine(s) ==
    IF s = <<>> \/ Head(s) = "n" THEN <<>> ELSE <<Head(s)>> \o FirstLine(Tail(s))

OriginalQuery == <<"w", " ", "w">>
NoText == [present |-> FALSE, text |-> <<>>]
SomeText_first_word(s) ==
    [present |-> TRUE, text |-> IF s = <<>> THEN s ELSE <<Head(s)>>]
SomeText(s) == [present |-> TRUE, text |-> s]

\* compiled policy text: 0 is the empty string, n > 0 the non-empty text
\* stored by the n-th write of the tenant's policy.rego
EmptyText == 0

\* ------------------------------------------------------------------------
\* State
\* ------------------------------------------------------------------------
VARIABLES
    empFile,             \* [tenant -> employees.jsonl]
    schemaFile,          \* [tenant -> db_schema.sql]
    nlFile,              \* [tenant -> nl_policy.txt]
    regoFile,            \* [tenant -> policy.rego]
    _employee_cache,     \* dict policy_id -> {user_id -> record}
    _policy_cache,       \* dict policy_id -> compiled policy text
    policy_write_locks,  \* [tenant -> asyncio.Lock]
    running,             \* the coroutine that owns the event loop, or NoProc
    chk,                 \* [Checkers -> one check_query invocation]
    adm,                 \* [Admins -> one administrative route invocation]
    syn,                 \* one run of _generate_rego_with_self_correction
    reads,               \* [tenant -> file reads per artifact kind since the last clear_cache]
    inval,               \* [tenant -> clear_cache ran and no lookup of that kind followed yet]
    opa_policies         \* the evaluator: [endpoint -> the policy module loaded under it]

vars == <<empFile, schemaFile, nlFile, regoFile, _employee_cache, _policy_cache,
          policy_write_locks, running, chk, adm, syn, reads, inval, opa_policies>>

fileVars == <<empFile, schemaFile, nlFile, regoFile>>

\* ------------------------------------------------------------------------
\* Artifact files
\* ------------------------------------------------------------------------
\* ver counts the writes of the file, by is the call that wrote it last; a
\* file that was never written does not exist.  src, for policy.rego: the
\* write number of nl_policy.txt that was current when the text was stored
\* (for a generated policy, the rules it was compiled from).
File(ver, by, src, body) == [exists |-> TRUE, ver |-> ver, by |-> by, src |-> src, body |-> body]
NoFile(body) == [exists |-> FALSE, ver |-> 0, by |-> "none", src |-> 0, body |-> body]

\* one line of employees.jsonl: a record with a user_id, a line json.loads
\* rejects or that lacks "user_id", or a blank line
RecLine(u) == [kind |-> "rec", user_id |-> u]
BadLine == [kind |-> "bad", user_id |-> "none"]
BlankLine == [kind |-> "blank", user_id |-> "none"]

NoUser == [user_id |-> "none", ver |-> 0]
EmptyMap == [u \in {} |-> NoUser]

RECURSIVE ParseLines(_, _, _)
\* the for-loop of _get_user_attributes over the lines of the file: the
\* result is [ok, map]; a bad line raises, whatever was parsed before it
ParseLines(lines, ver, map) ==
    IF lines = <<>> THEN [ok |-> TRUE, map |-> map]
    ELSE LET l == Head(lines) IN
         IF l.kind = "blank" THEN ParseLines(Tail(lines), ver, map)
         ELSE IF l.kind = "bad" THEN [ok |-> FALSE, map |-> map]
         ELSE ParseLines(Tail(lines), ver,
                         (l.user_id :> [user_id |-> l.user_id, ver |-> ver]) @@ map)

LoadEmployees_partial(f) ==
    IF ~f.exists THEN EmptyMap ELSE ParseLines(f.body, f.ver, EmptyMap).map

\* what _get_user_attributes stores on a miss
LoadEmployees(f) ==
    IF ~f.exists THEN EmptyMap
    ELSE LET r == ParseLines(f.body, f.ver, EmptyMap)
         IN IF r.ok THEN r.map ELSE EmptyMap

\* what _get_policy stores on a miss
LoadPolicy(f) == IF ~f.exists THEN EmptyText ELSE f.body

\* ------------------------------------------------------------------------
\* Read cache (permission_controller.py)
\* ------------------------------------------------------------------------
\* The lock _file_locks[filepath] is taken and released inside one lookup and
\* nothing is awaited in between, so a lookup never finds it held: acquire()
\* returns at once and the lookup is one atomic step of the event loop.

_get_user_attributes_nocheck(t) ==
    [cache |-> (t :> LoadEmployees(empFile[t])) @@ _employee_cache, read |-> TRUE]

_get_user_attributes_unresolved(t) ==
    IF t \notin DOMAIN _employee_cache
    THEN [cache |-> IF empFile[t].exists
                    THEN (t :> LoadEmployees(empFile[t])) @@ _employee_cache
                    ELSE _employee_cache,
          read |-> TRUE]
    ELSE [cache |-> _employee_cache, read |-> FALSE]

_get_user_attributes_retry(t) ==
    IF t \notin DOMAIN _employee_cache \/ _employee_cache[t] = EmptyMap
    THEN [cache |-> (t :> LoadEmployees(empFile[t])) @@ _employee_cache, read |-> TRUE]
    ELSE [cache |-> _employee_cache, read |-> FALSE]

\* the cache after the lookup, and whether the file was read
_get_user_attributes(t) ==
    IF t \notin DOMAIN _employee_cache
    THEN [cache |-> (t :> LoadEmployees(empFile[t])) @@ _employee_cache, read |-> TRUE]
    ELSE [cache |-> _employee_cache, read |-> FALSE]

UserOf_anyone(cache, t, u) ==
    IF t \in DOMAIN cache /\ u \in DOMAIN cache[t] THEN cache[t][u]
    ELSE [user_id |-> u, ver |-> 0]

\* _employee_cache.get(policy_id, {}).get(user_id)
UserOf(cache, t, u) ==
    IF t \in DOMAIN cache /\ u \in DOMAIN cache[t] THEN cache[t][u] ELSE NoUser

_get_policy_nocheck(t) ==
    [cache |-> (t :> LoadPolicy(regoFile[t])) @@ _policy_cache, read |-> TRUE]

_get_policy(t) ==
    IF t \notin DOMAIN _policy_cache
    THEN [cache |-> (t :> LoadPolicy(regoFile[t])) @@ _policy_cache, read |-> TRUE]
    ELSE [cache |-> _policy_cache, read |-> FALSE]

Without_all(cache, t) == [x \in {} |-> cache[x]]

Without(cache, t) == [x \in DOMAIN cache \ {t} |-> cache[x]]

clear_cache_keep_policy(t) ==
    [emp |-> Without(_employee_cache, t), pol |-> _policy_cache]

clear_cache_keep_employees(t) ==
    [emp |-> _employee_cache, pol |-> Without(_policy_cache, t)]

\* the two caches after clear_cache(policy_id)
clear_cache(t) ==
    [emp |-> Without(_employee_cache, t), pol |-> Without(_policy_cache, t)]

\* ------------------------------------------------------------------------
\* check_query (permission_controller.py)
\* ------------------------------------------------------------------------
\* The oracle's reply to the intent prompt: acompletion raised; the content
\* holds no {...} block; the block is not JSON; or it is a JSON object whose
\* "columns" key is a ColVal.
ParseReply(kind, columns) == [kind |-> kind, columns |-> columns]
NoReply == ParseReply("none", ColVal("missing", <<>>))
ParseReplies ==
    {ParseReply(k, ColVal("missing", <<>>)) : k \in {"raise", "nojson", "badjson"}}
    \cup {ParseReply("json", c) : c \in ColVals}

_parse_query_to_json_lenient(reply) ==
    [ok |-> reply.kind # "raise", columns |-> reply.columns]

\* _parse_query_to_json: the parsed object, or an exception
_parse_query_to_json(reply) ==
    [ok |-> reply.kind = "json", columns |-> reply.columns]

\* The evaluator's answer to evaluate_policy: an exception (push rejected,
\* transport error), or the object found under "result".
Verdict(has, allowed, cols, rows, reason) ==
    [has_allowed |-> has, allowed |-> allowed, allowed_columns |-> cols,
     row_constraints |-> rows, reason |-> reason]
NoVerdict == Verdict(FALSE, FALSE, ColVal("missing", <<>>), "missing", "missing")
Verdicts ==
    {Verdict(TRUE, TRUE, c, r, "r1") : c \in ColVals, r \in RowVals}
    \cup {Verdict(TRUE, FALSE, c, r, m) : c \in ColVals, r \in RowVals, m \in {"missing", "r1"}}
    \cup {Verdict(FALSE, FALSE, ColVal("missing", <<>>), "missing", m) : m \in {"missing", "r1"}}
EvalReply(raised, verdict) == [raised |-> raised, verdict |-> verdict]
NoEval == EvalReply(FALSE, NoVerdict)
EvalReplies == {EvalReply(TRUE, NoVerdict)} \cup {EvalReply(FALSE, v) : v \in Verdicts}

\* The oracle's reply to the rewrite prompt: acompletion raised, the message
\* has no content (None), or the content is a text.
RewriteReply(kind, text) == [kind |-> kind, text |-> text]
NoRewrite == RewriteReply("none", <<>>)
RewriteReplies ==
    {RewriteReply("raise", <<>>), RewriteReply("null", <<>>)}
    \cup {RewriteReply("text", s) : s \in SeqsUpTo(Chars, MaxReplyLen)}

_rewrite_query_with_llm_nonempty(reply) ==
    LET stripped == Strip(reply.text, WhiteSpace)
        line == IF \E i \in 1..Len(stripped) : stripped[i] = "n"
                THEN FirstLine(stripped) ELSE stripped
        text == Strip(Strip(line, {"q"}), WhiteSpace)
    IN [ok |-> reply.kind = "text" /\ text # <<>>, text |-> text]

\* _rewrite_query_with_llm: strip(), first line, strip quotes, strip()
_rewrite_query_with_llm(reply) ==
    LET stripped == Strip(reply.text, WhiteSpace)
        line == IF \E i \in 1..Len(stripped) : stripped[i] = "n"
                THEN FirstLine(stripped) ELSE stripped
    IN [ok |-> reply.kind = "text",
        text |-> Strip(Strip(line, {"q"}), WhiteSpace)]

\* What a caller hands to the OPA client for one query: the policy endpoint
\* the text was pushed to, the package path (its segments, joined by "/"),
\* the rule name, and input_data: its top-level keys and the keys found under
\* its "input" key.
OpaRequest(endpoint, package_path, rule_name, keys, input_keys) ==
    [endpoint |-> endpoint, package_path |-> package_path, rule_name |-> rule_name,
     input_data |-> [keys |-> keys, input |-> input_keys]]
NoRequest == OpaRequest("none", <<>>, "none", {}, {})

\* lines 72-75: opa_input = {"user": ..., "query_request": ...}
opa_input == [keys |-> {"user", "query_request"}, input |-> {}]

\* line 86: f"{policy_id}.access.result", as its dot-separated segments
policy_data_path(t) == <<t, "access", "result">>

\* evaluate_policy (main.py): the policy is pushed to endpoint policy_id;
\* rpartition(".") splits the rule name off, the remaining dots become "/";
\* input_data goes to query_rule as it was received
evaluate_policy(t, input_data, path) ==
    [endpoint |-> t, package_path |-> SubSeq(path, 1, Len(path) - 1),
     rule_name |-> path[Len(path)], input_data |-> input_data]

\* A policy module held by the evaluator: the text, and who pushed it
\* ("policy": check_query, the cached text; "draft": a Verify pass)
Module(kind, text) == [kind |-> kind, text |-> text]
NoModule == Module("none", EmptyText)

update_policy_from_string_once(policies, endpoint, module) ==
    IF policies[endpoint] = NoModule
    THEN [policies EXCEPT ![endpoint] = module] ELSE policies

\* OpaClient.update_policy_from_string(new_policy, endpoint): the module
\* stored under the endpoint is replaced
update_policy_from_string(policies, endpoint, module) ==
    [policies EXCEPT ![endpoint] = module]

\* OpaClient.query_rule(input_data, package_path, rule_name): the module the
\* rule is evaluated in, the one loaded under the endpoint that names the
\* package's first segment
query_rule(policies, package_path) == policies[Head(package_path)]

\* Decisions
Decision(kind, reason, rewritten, raw) ==
    [decision |-> kind, reason |-> reason, rewritten_query |-> rewritten, opa_result |-> raw]
NoDecision == Decision("NONE", "none", NoText, FALSE)
Deny_echo(reason) == Decision("DENY", reason, SomeText(OriginalQuery), FALSE)
Deny(reason) == Decision("DENY", reason, NoText, FALSE)

\* `if not rego_policy`
PolicyMissing_never(rego) == FALSE
PolicyMissing(rego) == rego = EmptyText

\* `if not opa_result or 'allowed' not in opa_result: raise`, inside the try
EvaluationFailed(ev) == ev.raised \/ ~ev.verdict.has_allowed

\* lines 113-121: needs_rewrite; set() raises TypeError on None and on
\* non-hashable members, outside every try block
NeedsRewriteRaises(allowed_columns, requested_columns) ==
    SetRaises(allowed_columns) \/ SetRaises(requested_columns)
needs_rewrite_fewer(allowed_columns, requested_columns, row_constraints) ==
    \/ Len(allowed_columns.items) < Len(requested_columns.items)
    \/ RowTruthy(row_constraints)
needs_rewrite(allowed_columns, requested_columns, row_constraints) ==
    \/ SetOf(allowed_columns) # SetOf(requested_columns)
    \/ RowTruthy(row_constraints)

Synthesis_rewrite_first(verdict, columns) ==
    LET allowed_columns == GetOrEmptyList(verdict.allowed_columns)
        requested_columns == GetOrEmptyList(columns)
    IN IF NeedsRewriteRaises(allowed_columns, requested_columns) THEN "RAISE"
       ELSE IF needs_rewrite(allowed_columns, requested_columns, verdict.row_constraints)
            THEN "REWRITE"
       ELSE IF ~verdict.allowed THEN "DENY"
       ELSE "ALLOW"

\* lines 104-128: what decision synthesis does with a verdict that has the
\* 'allowed' field: "DENY", "ALLOW", "REWRITE" (go on to the rewrite oracle)
\* or "RAISE" (an exception leaves check_query)
Synthesis(verdict, columns) ==
    LET allowed_columns == GetOrEmptyList(verdict.allowed_columns)
        requested_columns == GetOrEmptyList(columns)
    IN IF ~verdict.allowed THEN "DENY"
       ELSE IF NeedsRewriteRaises(allowed_columns, requested_columns) THEN "RAISE"
       ELSE IF needs_rewrite(allowed_columns, requested_columns, verdict.row_constraints)
            THEN "REWRITE"
       ELSE "ALLOW"

\* opa_result.get("reason", "Access denied by policy.")
DenyReason(verdict) ==
    IF verdict.reason = "missing" THEN "Access denied by policy." ELSE verdict.reason

Max(S) == CHOOSE x \in S : \A y \in S : y <= x

\* the write number of policy.rego committed by the latest natural-language
\* update of tenant t that has returned to its caller (0: none has)
adm_floor(t) ==
    Max({0} \cup {adm[a].rego_ver : a \in {b \in Admins :
            adm[b].pc = "done" /\ adm[b].status = "success" /\ adm[b].policy_id = t}})

IdleChk ==
    [pc |-> "idle", policy_id |-> "none", user_id |-> "none", user_info |-> NoUser,
     reply |-> NoReply, got_policy |-> FALSE, rego_policy |-> EmptyText,
     ev |-> NoEval, rw |-> NoRewrite, result |-> NoDecision,
     floor |-> 0, oracle_calls |-> 0, opa_calls |-> 0, opa_request |-> NoRequest,
     emp_ver |-> 0, rego_ver |-> 0, returned |-> {}, queried |-> NoModule]

Finish(c, decision) == [c EXCEPT !.pc = "done", !.result = decision]

\* lines 55-65: identity resolution, then the intent oracle is called; the
\* coroutine suspends in acompletion
check_query(p, t, u) ==
    /\ running = NoProc
    /\ chk[p].pc = "idle"
    /\ LET got == _get_user_attributes(t)
           user_info == UserOf(got.cache, t, u)
           c == [chk[p] EXCEPT !.policy_id = t, !.user_id = u, !.user_info = user_info,
                               !.floor = adm_floor(t), !.emp_ver = empFile[t].ver,
                               !.returned = {a \in Admins : adm[a].pc = "done"}]
       IN /\ _employee_cache' = got.cache
          /\ reads' = [reads EXCEPT ![t].emp = IF got.read THEN @ + 1 ELSE @]
          /\ inval' = [inval EXCEPT ![t].emp = FALSE]
          /\ chk' = [chk EXCEPT ![p] =
                IF user_info = NoUser
                THEN Finish(c, Deny("User or Policy ID not found."))
                ELSE [c EXCEPT !.pc = "parse", !.oracle_calls = @ + 1]]
    /\ UNCHANGED <<fileVars, _policy_cache, policy_write_locks, running, adm, syn, opa_policies>>

\* lines 66-138: the intent reply arrives; policy resolution, evaluation and
\* decision synthesis run without suspending (evaluate_policy pushes and
\* queries through the synchronous OPA client; when it raises, the push was
\* rejected or went through before the failure); a needed rewrite suspends
\* in the second acompletion
check_query_parsed(p, reply, ev) ==
    /\ running = NoProc
    /\ chk[p].pc = "parse"
    /\ LET t == chk[p].policy_id
           pr == _parse_query_to_json(reply)
           got == _get_policy(t)
           rego_policy == got.cache[t]
           c1 == [chk[p] EXCEPT !.reply = reply]
           c2 == [c1 EXCEPT !.got_policy = TRUE, !.rego_policy = rego_policy,
                            !.rego_ver = regoFile[t].ver]
           request == evaluate_policy(t, opa_input, policy_data_path(t))
           pushed == update_policy_from_string(opa_policies, request.endpoint,
                                               Module("policy", rego_policy))
           c3 == [c2 EXCEPT !.ev = ev, !.opa_calls = @ + 1, !.opa_request = request,
                            !.queried = IF ev.raised THEN NoModule
                                        ELSE query_rule(pushed, request.package_path)]
           how == Synthesis(ev.verdict, pr.columns)
       IN IF ~pr.ok
          THEN /\ chk' = [chk EXCEPT ![p] = Finish(c1, Deny("LLM parsing failed"))]
               /\ UNCHANGED <<_policy_cache, reads, inval, opa_policies>>
          ELSE /\ _policy_cache' = got.cache
               /\ IF PolicyMissing(rego_policy) THEN UNCHANGED opa_policies
                  ELSE IF ev.raised THEN opa_policies' \in {opa_policies, pushed}
                  ELSE opa_policies' = pushed
               /\ reads' = [reads EXCEPT ![t].pol = IF got.read THEN @ + 1 ELSE @]
               /\ inval' = [inval EXCEPT ![t].pol = FALSE]
               /\ chk' = [chk EXCEPT ![p] =
                     IF PolicyMissing(rego_policy)
                     THEN Finish(c2, Deny("Policy file not found."))
                     ELSE IF EvaluationFailed(ev)
                     THEN Finish(c3, Deny("OPA evaluation failed"))
                     ELSE IF how = "DENY" THEN Finish(c3, Deny(DenyReason(ev.verdict)))
                     ELSE IF how = "RAISE" THEN [c3 EXCEPT !.pc = "raised"]
                     ELSE IF how = "ALLOW"
                     THEN Finish(c3, Decision("ALLOW", "none", SomeText(OriginalQuery), TRUE))
                     ELSE [c3 EXCEPT !.pc = "rewrite", !.oracle_calls = @ + 1]]
    /\ UNCHANGED <<fileVars, _employee_cache, policy_write_locks, running, adm, syn>>

\* lines 139-147: the rewrite reply arrives
check_query_rewritten(p, reply) ==
    /\ running = NoProc
    /\ chk[p].pc = "rewrite"
    /\ LET rw == _rewrite_query_with_llm(reply)
           c == [chk[p] EXCEPT !.rw = reply]
       IN chk' = [chk EXCEPT ![p] =
             IF rw.ok
             THEN Finish(c, Decision("REWRITE", "none", SomeText(rw.text), TRUE))
             ELSE Finish(c, Deny("Query rewrite failed"))]
    /\ UNCHANGED <<fileVars, _employee_cache, _policy_cache, policy_write_locks,
                   running, adm, syn, opa_policies, reads, inval>>

\* ------------------------------------------------------------------------
\* Write lock (asyncio.Lock in policy_write_locks)
\* ------------------------------------------------------------------------
FreeLock == [locked |-> FALSE, waiters |-> <<>>]

CanTake_always(l) == TRUE

CanTake_nowaiters(l) == l.waiters = <<>>

\* Lock.acquire() returns without suspending iff the lock is not held and
\* nobody waits for it; otherwise the caller queues behind the waiters
CanTake(l) == ~l.locked /\ l.waiters = <<>>

\* Lock.release(): the first waiter is woken and takes the lock when the
\* event loop resumes it
Release(l) == [l EXCEPT !.locked = FALSE]

ExitLock_on_return(l, raised) == IF raised THEN l ELSE Release(l)

\* `async with lock:` is left, by the end of the block or by an exception
\* that passes through it: __aexit__ releases the lock in both cases
ExitLock(l, raised) == Release(l)

LockOf_shared(t) == "t1"

\* self.policy_write_locks[policy_id]: the key of a tenant's write lock
LockOf(t) == t

\* ------------------------------------------------------------------------
\* Administrative routes (policy_routes.py) and PolicyManager writes
\* ------------------------------------------------------------------------
Routes == {"create_policy", "update_policy", "upload_file"}
FileTypes == {"sql", "user_table", "policy", "rego"}

\* the kinds a route handler may be entered with: the members of
\* UpdateFileType, and a value that is none of them
RequestFileTypes == FileTypes \cup {"other"}

\* the PolicyManager calls a route makes, in order
OpsOf(route, file_type) ==
    IF route = "create_policy" THEN <<"user_table", "sql", "policy">> ELSE <<file_type>>

EmpBodies == {<<RecLine("u1"), BlankLine, RecLine("u2")>>, <<RecLine("u1"), BadLine>>}

\* _generate_rego_from_nl, line 63: the self-correction loop runs only when an
\* OPA client is given and use_agent is set
AgenticMode(opa_client, use_agent) == opa_client /\ use_agent

\* the routes call update_nl_policy(policy_id, content): opa_client keeps its
\* default None and use_agent its default False
RouteOpaClient == FALSE
RouteUseAgent == FALSE

IdleAdm ==
    [pc |-> "idle", route |-> "none", policy_id |-> "none", ops |-> <<>>,
     status |-> "none", mutated |-> FALSE, invalidated |-> FALSE,
     nl_ver |-> 0, rego_ver |-> 0, verified |-> FALSE, unknown_kind |-> FALSE,
     waited |-> FALSE, context |-> [schema |-> 0, employees |-> 0]]

\* a route is entered; upload_file first reads and decodes the upload, and a
\* decoding error ends the call in its except branch.  A kind that matches no
\* branch of the if-chain: update_policy raises HTTPException in its else
\* branch (re-raised by its except branch); upload_file has no else branch
\* and goes on to invalidate_cache and its success response.
admin_call(a, route, file_type, t, decodes) ==
    /\ running = NoProc
    /\ adm[a].pc = "idle"
    /\ route = "create_policy" => file_type = "policy"
    /\ route # "upload_file" => decodes
    /\ IF ~decodes
       THEN /\ adm' = [adm EXCEPT ![a] = [@ EXCEPT !.pc = "done", !.route = route,
                           !.policy_id = t, !.status = "error"]]
            /\ UNCHANGED running
       ELSE IF file_type \in FileTypes
       THEN /\ adm' = [adm EXCEPT ![a] = [@ EXCEPT !.pc = "acquire", !.route = route,
                           !.policy_id = t, !.ops = OpsOf(route, file_type)]]
            /\ running' = a
       ELSE IF route = "update_policy"
       THEN /\ adm' = [adm EXCEPT ![a] = [@ EXCEPT !.pc = "done", !.route = route,
                           !.policy_id = t, !.status = "error", !.unknown_kind = TRUE]]
            /\ UNCHANGED running
       ELSE /\ adm' = [adm EXCEPT ![a] = [@ EXCEPT !.pc = "invalidate", !.route = route,
                           !.policy_id = t, !.unknown_kind = TRUE]]
            /\ running' = a
    /\ UNCHANGED <<fileVars, _employee_cache, _policy_cache, policy_write_locks,
                   chk, syn, opa_policies, reads, inval>>

\* `async with self.policy_write_locks[policy_id]` of _save_raw_file and of
\* update_nl_policy
lock_acquire(a) ==
    /\ running = a
    /\ adm[a].pc = "acquire"
    /\ LET t == adm[a].policy_id
           l == policy_write_locks[LockOf(t)]
       IN IF CanTake(l)
          THEN /\ policy_write_locks' = [policy_write_locks EXCEPT ![LockOf(t)].locked = TRUE]
               /\ adm' = [adm EXCEPT ![a].pc = "locked"]
               /\ UNCHANGED running
          ELSE /\ policy_write_locks' =
                     [policy_write_locks EXCEPT ![LockOf(t)].waiters = Append(@, a)]
               /\ adm' = [adm EXCEPT ![a] = [@ EXCEPT !.pc = "waiting", !.waited = TRUE]]
               /\ running' = NoProc
    /\ UNCHANGED <<fileVars, _employee_cache, _policy_cache, chk, syn, opa_policies, reads, inval>>

\* the woken first waiter is resumed and takes the lock
lock_wakeup(a) ==
    /\ running = NoProc
    /\ adm[a].pc = "waiting"
    /\ LET t == adm[a].policy_id
           l == policy_write_locks[LockOf(t)]
       IN /\ ~l.locked
          /\ l.waiters # <<>> /\ Head(l.waiters) = a
          /\ policy_write_locks' =
                [policy_write_locks EXCEPT ![LockOf(t)] = [locked |-> TRUE, waiters |-> Tail(l.waiters)]]
    /\ adm' = [adm EXCEPT ![a].pc = "locked"]
    /\ running' = a
    /\ UNCHANGED <<fileVars, _employee_cache, _policy_cache, chk, syn, opa_policies, reads, inval>>

\* what a route does after a PolicyManager call returned: the next call, or
\* invalidate_cache
AfterOp(ops) == IF Tail(ops) = <<>> THEN "invalidate" ELSE "acquire"

\* _save_raw_file under the lock, for update_employee_table, update_db_schema
\* and update_rego_policy: write the file, release the lock, return
_save_raw_file(a, emp_body, rego_empty) ==
    /\ running = a
    /\ adm[a].pc = "locked"
    /\ Head(adm[a].ops) \in {"user_table", "sql", "rego"}
    /\ LET t == adm[a].policy_id
           kind == Head(adm[a].ops)
       IN /\ empFile' = IF kind = "user_table"
                THEN [empFile EXCEPT ![t] = File(@.ver + 1, a, 0, emp_body)] ELSE empFile
          /\ schemaFile' = IF kind = "sql"
                THEN [schemaFile EXCEPT ![t] = File(@.ver + 1, a, 0, @.ver + 1)] ELSE schemaFile
          /\ regoFile' = IF kind = "rego"
                THEN [regoFile EXCEPT ![t] = File(@.ver + 1, a, nlFile[t].ver,
                                                  IF rego_empty THEN EmptyText ELSE @.ver + 1)]
                ELSE regoFile
          /\ policy_write_locks' = [policy_write_locks EXCEPT ![LockOf(t)] = Release(@)]
          /\ adm' = [adm EXCEPT ![a] = [@ EXCEPT !.pc = AfterOp(adm[a].ops), !.ops = Tail(@),
                                                 !.mutated = TRUE]]
    /\ UNCHANGED <<nlFile, _employee_cache, _policy_cache, running, chk, syn, opa_policies, reads, inval>>

GenerationFailed_rollback(nl) == NoFile(nl.body)

\* lines 807-809: `except Exception as e: ... raise e`: nl_policy.txt as the
\* except branch of update_nl_policy leaves it
GenerationFailed(nl) == nl

\* _generate_rego_from_nl, lines 54-55: the prompt is built from db_schema.sql
\* and employees.jsonl as they are when the generation starts (here: the
\* write numbers of the two files)
_read_context(t) == [schema |-> schemaFile[t].ver, employees |-> empFile[t].ver]

_save_raw_file_relocking(l, a) ==
    [lock |-> [l EXCEPT !.waiters = Append(@, a)], suspended |-> TRUE]

\* _save_raw_file_unlocked, lines 813-824: the write lock as the call leaves
\* it, and whether the caller was suspended on it; the method does not
\* touch the lock
_save_raw_file_unlocked(l, a) == [lock |-> l, suspended |-> FALSE]

\* update_nl_policy, lines 784-797: under the lock, save nl_policy.txt with
\* _save_raw_file_unlocked, then await the oracle in _generate_rego_from_nl
\* (the routes pass no opa_client: single-pass generation)
update_nl_policy(a) ==
    /\ running = a
    /\ adm[a].pc = "locked"
    /\ Head(adm[a].ops) = "policy"
    /\ LET t == adm[a].policy_id
           saved == _save_raw_file_unlocked(policy_write_locks[LockOf(t)], a)
       IN /\ policy_write_locks' = [policy_write_locks EXCEPT ![LockOf(t)] = saved.lock]
          /\ IF saved.suspended
             THEN /\ adm' = [adm EXCEPT ![a] = [@ EXCEPT !.pc = "waiting", !.waited = TRUE]]
                  /\ UNCHANGED nlFile
             ELSE /\ nlFile' = [nlFile EXCEPT ![t] = File(@.ver + 1, a, 0, @.ver + 1)]
                  /\ adm' = [adm EXCEPT ![a] = [@ EXCEPT !.pc = "llm", !.mutated = TRUE,
                                                         !.nl_ver = nlFile[t].ver + 1,
                                                         !.context = _read_context(t)]]
    /\ running' = NoProc
    /\ UNCHANGED <<empFile, schemaFile, regoFile, _employee_cache, _policy_cache,
                   chk, syn, opa_policies, reads, inval>>

\* update_nl_policy, lines 798-811: the oracle call ends.  "raise": _call_llm
\* raised, the exception is re-raised through the lock and the route's
\* except branch; "empty" / "text": the returned code is saved as policy.rego.
\* The code was pushed to the evaluator and verified only in agentic mode.
update_nl_policy_generated(a, llm) ==
    /\ running = NoProc
    /\ adm[a].pc = "llm"
    /\ LET t == adm[a].policy_id
       IN /\ policy_write_locks' =
                [policy_write_locks EXCEPT ![LockOf(t)] = ExitLock(@, llm = "raise")]
          /\ IF llm = "raise"
             THEN /\ adm' = [adm EXCEPT ![a] = [@ EXCEPT !.pc = "done", !.status = "error"]]
                  /\ nlFile' = [nlFile EXCEPT ![t] = GenerationFailed(@)]
                  /\ UNCHANGED <<regoFile, running>>
             ELSE /\ regoFile' = [regoFile EXCEPT ![t] = File(@.ver + 1, a, adm[a].nl_ver,
                                      IF llm = "empty" THEN EmptyText ELSE @.ver + 1)]
                  /\ adm' = [adm EXCEPT ![a] = [@ EXCEPT !.pc = AfterOp(adm[a].ops), !.ops = Tail(@),
                                                         !.rego_ver = regoFile[t].ver + 1,
                                                         !.verified = AgenticMode(RouteOpaClient,
                                                                                  RouteUseAgent)]]
                  /\ running' = a
                  /\ UNCHANGED nlFile
    /\ UNCHANGED <<empFile, schemaFile, _employee_cache, _policy_cache,
                   chk, syn, opa_policies, reads, inval>>

\* the route's `await controller.invalidate_cache(policy_id)` and its return
invalidate_cache(a) ==
    /\ running = a
    /\ adm[a].pc = "invalidate"
    /\ LET t == adm[a].policy_id
           cleared == clear_cache(t)
       IN /\ _employee_cache' = cleared.emp
          /\ _policy_cache' = cleared.pol
          /\ reads' = [reads EXCEPT ![t] = [emp |-> 0, pol |-> 0]]
          /\ inval' = [inval EXCEPT ![t] = [emp |-> TRUE, pol |-> TRUE]]
    /\ adm' = [adm EXCEPT ![a] = [@ EXCEPT !.pc = "done", !.status = "success",
                                           !.invalidated = TRUE]]
    /\ running' = NoProc
    /\ UNCHANGED <<fileVars, policy_write_locks, chk, syn, opa_policies>>

\* ------------------------------------------------------------------------
\* Self-correction loop (policy_manager.py)
\* ------------------------------------------------------------------------
max_retries == 5

\* a generated test case: its expected_decision
TestCase(expected) == [expected_decision |-> expected]
Batteries == SeqsUpTo({TestCase(e) : e \in {"ALLOW", "REWRITE", "DENY"}}, MaxBattery)

\* the oracle's reply to a drafting or repair prompt, after _call_llm: an
\* exception, the empty string, or code
CodeReplies == {"raise", "empty", "text"}

\* the oracle's reply to the test prompt: an exception, a text without a
\* JSON array, or an array of test cases
TestReply(kind, cases) == [kind |-> kind, cases |-> cases]
TestReplies ==
    {TestReply("raise", <<>>), TestReply("unparsable", <<>>)}
    \cup {TestReply("array", b) : b \in Batteries}

_parse_json_from_llm_default(reply) ==
    IF reply.kind = "array" THEN reply.cases ELSE <<TestCase("DENY")>>

\* _parse_json_from_llm: [] when nothing parses
_parse_json_from_llm(reply) == IF reply.kind = "array" THEN reply.cases ELSE <<>>

\* what the evaluator answers during one Verify pass: whether the push of
\* the draft is accepted, and its answer to each query
SynVerdicts ==
    {Verdict(TRUE, TRUE, c, r, "r1") :
        c \in {ColVal("list", <<>>), ColVal("list", <<"c1">>), ColVal("null", <<>>)},
        r \in {"empty", "nonempty"}}
    \cup {Verdict(TRUE, FALSE, ColVal("list", <<>>), "empty", "r1"), NoVerdict}
SynAnswers == {EvalReply(TRUE, NoVerdict)} \cup {EvalReply(FALSE, v) : v \in SynVerdicts}
VerifyInput(push_ok, answers) == [push_ok |-> push_ok, answers |-> answers]
VerifyInputs(n) ==
    {VerifyInput(b, a) : b \in BOOLEAN, a \in {x \in SeqsUpTo(SynAnswers, n) : Len(x) = n}}

\* lines 231-254: the draft is pushed to endpoint policy_id and each case is
\* queried with input_data = {"input": {"user": ..., "query_request": ...}}
\* at package f"{policy_id}/access", rule "result"
verification_request(t) ==
    OpaRequest(t, <<t, "access">>, "result", {"input"}, {"user", "query_request"})

\* lines 257-265: the classification of one evaluator answer; "ERROR" when
\* the query or len(None) raises (caught at line 284)
actual_decision(answer) ==
    LET v == answer.verdict
        cols == GetOrEmptyList(v.allowed_columns)
    IN IF answer.raised THEN "ERROR"
       ELSE IF ~v.allowed THEN "DENY"
       ELSE IF RowTruthy(v.row_constraints) THEN "REWRITE"
       ELSE IF cols.tag = "null" THEN "ERROR"
       ELSE IF cols.tag = "unhashable" \/ Len(cols.items) > 0 THEN "ALLOW"
       ELSE "REWRITE"

\* lines 267-285: the failure report of one case, "pass" when there is none
CaseReport(case, answer) ==
    LET actual == actual_decision(answer)
        expected == case.expected_decision
    IN IF actual = "ERROR" THEN "execution error"
       ELSE IF expected = "DENY" /\ actual # "DENY" THEN "expected DENY"
       ELSE IF expected # "DENY" /\ actual = "DENY" THEN "got DENY"
       ELSE "pass"

_run_verification_tests_nopush(test_cases, vin) ==
    LET reports == [i \in 1..Len(test_cases) |-> CaseReport(test_cases[i], vin.answers[i])]
        pushed == IF vin.push_ok THEN <<>> ELSE <<"compilation error">>
    IN [failures |-> pushed \o SelectSeq(reports, LAMBDA r : r # "pass"),
        pass_count |-> Len(SelectSeq(reports, LAMBDA r : r = "pass")),
        total_count |-> Len(test_cases), evaluated |-> Len(test_cases),
        actuals |-> [i \in 1..Len(test_cases) |-> actual_decision(vin.answers[i])]]

\* _run_verification_tests: (failures, pass_count, total_count), the number
\* of cases submitted to the evaluator, and the actual_decision of each
_run_verification_tests(test_cases, vin) ==
    LET reports == [i \in 1..Len(test_cases) |-> CaseReport(test_cases[i], vin.answers[i])]
    IN IF ~vin.push_ok
       THEN [failures |-> <<"compilation error">>, pass_count |-> 0,
             total_count |-> Len(test_cases), evaluated |-> 0, actuals |-> <<>>]
       ELSE [failures |-> SelectSeq(reports, LAMBDA r : r # "pass"),
             pass_count |-> Len(SelectSeq(reports, LAMBDA r : r = "pass")),
             total_count |-> Len(test_cases), evaluated |-> Len(test_cases),
             actuals |-> [i \in 1..Len(test_cases) |-> actual_decision(vin.answers[i])]]

IdleSyn ==
    [pc |-> "idle", policy_id |-> "none", current_rego |-> EmptyText, drafts |-> 0,
     test_cases |-> <<>>, attempt |-> 0, verifies |-> 0, repairs |-> 0, failures |-> <<>>,
     verified |-> EmptyText, validated |-> FALSE, opa_request |-> NoRequest,
     verified_draft |-> 0, push_ok |-> TRUE, pass_count |-> 0, evaluated |-> 0,
     actuals |-> <<>>, test_reply |-> "none"]

\* `for attempt in range(max_retries)`
BudgetLeft_inclusive(attempt) == attempt <= max_retries
BudgetLeft(attempt) == attempt < max_retries

\* lines 111-113: one Verify pass of the current draft, and what it returned
Verified(s, attempt, vin) ==
    LET v == _run_verification_tests(s.test_cases, vin)
    IN [s EXCEPT !.attempt = attempt, !.verifies = @ + 1,
                 !.failures = v.failures, !.verified = s.current_rego,
                 !.verified_draft = s.drafts, !.push_ok = vin.push_ok,
                 !.pass_count = v.pass_count, !.evaluated = v.evaluated,
                 !.actuals = v.actuals,
                 !.opa_request = IF v.evaluated > 0
                                 THEN verification_request(s.policy_id) ELSE @]

LoopTurn_by_count(s, attempt, vin) ==
    IF ~BudgetLeft(attempt)
    THEN [s EXCEPT !.pc = "done", !.attempt = attempt]
    ELSE LET s1 == Verified(s, attempt, vin)
         IN IF s1.pass_count = Len(s.test_cases)
            THEN [s1 EXCEPT !.pc = "done", !.validated = TRUE]
            ELSE [s1 EXCEPT !.pc = "fix", !.repairs = @ + 1]

\* lines 106-137, one turn of the for loop from its head with the loop
\* variable at `attempt`: leave the loop when the budget is spent, else
\* Verify, return on success, else ask the oracle for a repair and suspend
LoopTurn(s, attempt, vin) ==
    IF ~BudgetLeft(attempt)
    THEN [s EXCEPT !.pc = "done", !.attempt = attempt]
    ELSE LET s1 == Verified(s, attempt, vin)
         IN IF s1.failures = <<>>
            THEN [s1 EXCEPT !.pc = "done", !.validated = TRUE]
            ELSE [s1 EXCEPT !.pc = "fix", !.repairs = @ + 1]

\* a code reply becomes the current draft
Drafted(s, reply) ==
    [s EXCEPT !.drafts = @ + 1,
              !.current_rego = IF reply = "empty" THEN EmptyText ELSE s.drafts + 1]

\* lines 230-235: the evaluator after the push of a Verify pass: the draft
\* replaces the module under endpoint policy_id unless the push is rejected
\* (or the loop has ended and no Verify runs)
VerifyPush(s, attempt, vin) ==
    IF BudgetLeft(attempt) /\ vin.push_ok
    THEN update_policy_from_string(opa_policies, s.policy_id, Module("draft", s.current_rego))
    ELSE opa_policies

\* line 95: the run starts and awaits _llm_generate_initial_rego
synth_start(t) ==
    /\ syn.pc = "idle"
    /\ syn' = [syn EXCEPT !.pc = "draft", !.policy_id = t]
    /\ UNCHANGED <<fileVars, _employee_cache, _policy_cache, policy_write_locks,
                   running, chk, adm, reads, inval, opa_policies>>

\* lines 95-99: the draft arrives, _llm_generate_test_cases is awaited
synth_drafted(reply) ==
    /\ syn.pc = "draft"
    /\ syn' = IF reply = "raise" THEN [syn EXCEPT !.pc = "raised"]
              ELSE [Drafted(syn, reply) EXCEPT !.pc = "tests"]
    /\ UNCHANGED <<fileVars, _employee_cache, _policy_cache, policy_write_locks,
                   running, chk, adm, reads, inval, opa_policies>>

\* lines 99-132: the test battery arrives and the loop starts
synth_tests(reply, vin) ==
    /\ syn.pc = "tests"
    /\ LET cases == _parse_json_from_llm(reply)
       IN /\ Len(vin.answers) = Len(cases)
          /\ syn' = IF reply.kind = "raise" THEN [syn EXCEPT !.pc = "raised"]
                    ELSE LoopTurn([syn EXCEPT !.test_cases = cases, !.test_reply = reply.kind], 0, vin)
          /\ opa_policies' = IF reply.kind = "raise" THEN opa_policies
                             ELSE VerifyPush(syn, 0, vin)
    /\ UNCHANGED <<fileVars, _employee_cache, _policy_cache, policy_write_locks,
                   running, chk, adm, reads, inval>>

\* lines 130-137: the repaired draft arrives and the loop goes on
synth_fixed(reply, vin) ==
    /\ syn.pc = "fix"
    /\ Len(vin.answers) = Len(syn.test_cases)
    /\ syn' = IF reply = "raise" THEN [syn EXCEPT !.pc = "raised"]
              ELSE LoopTurn(Drafted(syn, reply), syn.attempt + 1, vin)
    /\ opa_policies' = IF reply = "raise" THEN opa_policies
                       ELSE VerifyPush(Drafted(syn, reply), syn.attempt + 1, vin)
    /\ UNCHANGED <<fileVars, _employee_cache, _policy_cache, policy_write_locks,
                   running, chk, adm, reads, inval>>

\* ------------------------------------------------------------------------
\* Specifications
\* ------------------------------------------------------------------------
InitProcesses ==
    /\ _employee_cache = [t \in {} |-> EmptyMap]
    /\ _policy_cache = [t \in {} |-> EmptyText]
    /\ policy_write_locks = [t \in Tenants |-> FreeLock]
    /\ running = NoProc
    /\ chk = [p \in Checkers |-> IdleChk]
    /\ adm = [a \in Admins |-> IdleAdm]
    /\ syn = IdleSyn
    /\ reads = [t \in Tenants |-> [emp |-> 0, pol |-> 0]]
    /\ inval = [t \in Tenants |-> [emp |-> FALSE, pol |-> FALSE]]
    /\ opa_policies = [t \in Tenants |-> NoModule]

\* Spec: requests and administrative calls interleave on a tenant whose four
\* artifacts exist (written by an earlier run of the service)
Init ==
    /\ empFile = [t \in Tenants |-> File(1, "init", 0, <<RecLine("u1")>>)]
    /\ schemaFile = [t \in Tenants |-> File(1, "init", 0, 1)]
    /\ nlFile = [t \in Tenants |-> File(1, "init", 0, 1)]
    /\ regoFile = [t \in Tenants |-> File(1, "init", 1, 1)]
    /\ InitProcesses

\* the replies the oracle and the evaluator give in Spec and SpecReaders
SpecParseReplies ==
    {ParseReply("raise", ColVal("missing", <<>>)), ParseReply("json", ColVal("list", <<"c1">>))}
SpecEvalReplies ==
    {EvalReply(TRUE, NoVerdict),
     EvalReply(FALSE, Verdict(TRUE, TRUE, ColVal("list", <<"c1">>), "empty", "r1")),
     EvalReply(FALSE, Verdict(TRUE, TRUE, ColVal("list", <<"c1">>), "nonempty", "r1"))}
SpecRewriteReplies ==
    {RewriteReply("text", <<"w">>), RewriteReply("text", <<>>), RewriteReply("raise", <<>>)}

\* the steps of the requests P and of the administrative calls A
Concurrent(P, A) ==
    \/ \E p \in P, t \in Tenants, u \in Users : check_query(p, t, u)
    \/ \E p \in P, reply \in SpecParseReplies, ev \in SpecEvalReplies :
          check_query_parsed(p, reply, ev)
    \/ \E p \in P, reply \in SpecRewriteReplies : check_query_rewritten(p, reply)
    \/ \E a \in A, route \in Routes, ft \in RequestFileTypes, t \in Tenants, d \in BOOLEAN :
          admin_call(a, route, ft, t, d)
    \/ \E a \in A : lock_acquire(a)
    \/ \E a \in A : lock_wakeup(a)
    \/ \E a \in A, body \in EmpBodies, e \in BOOLEAN : _save_raw_file(a, body, e)
    \/ \E a \in A : update_nl_policy(a)
    \/ \E a \in A, llm \in CodeReplies : update_nl_policy_generated(a, llm)
    \/ \E a \in A : invalidate_cache(a)

\* Spec: one request against two administrative calls
Next == Concurrent({"q1"}, Admins)
Spec == Init /\ [][Next]_vars

\* SpecReaders: two requests against one administrative call, which never
\* finds the write lock taken
NextReaders ==
    \/ \E p \in Checkers, t \in Tenants, u \in Users : check_query(p, t, u)
    \/ \E p \in Checkers, reply \in SpecParseReplies, ev \in SpecEvalReplies :
          check_query_parsed(p, reply, ev)
    \/ \E p \in Checkers, reply \in SpecRewriteReplies : check_query_rewritten(p, reply)
    \/ \E route \in Routes, ft \in FileTypes, t \in Tenants, d \in BOOLEAN :
          admin_call("a1", route, ft, t, d)
    \/ lock_acquire("a1")
    \/ \E body \in EmpBodies, e \in BOOLEAN : _save_raw_file("a1", body, e)
    \/ update_nl_policy("a1")
    \/ \E llm \in CodeReplies : update_nl_policy_generated("a1", llm)
    \/ invalidate_cache("a1")
SpecReaders == Init /\ [][NextReaders]_vars

\* SpecWriters: two administrative calls alone.  SpecWritersLive adds the
\* scheduling of the event loop: a coroutine that is ready to run is resumed
\* (asyncio keeps ready callbacks in a FIFO queue), and the oracle call made
\* under the write lock returns or raises.  Nothing obliges an administrator
\* to make a call: admin_call carries no fairness.
NextWriters ==
    \/ \E a \in Admins, route \in Routes, ft \in RequestFileTypes, t \in Tenants, d \in BOOLEAN :
          admin_call(a, route, ft, t, d)
    \/ \E a \in Admins : lock_acquire(a)
    \/ \E a \in Admins : lock_wakeup(a)
    \/ \E a \in Admins, body \in EmpBodies, e \in BOOLEAN : _save_raw_file(a, body, e)
    \/ \E a \in Admins : update_nl_policy(a)
    \/ \E a \in Admins, llm \in CodeReplies : update_nl_policy_generated(a, llm)
    \/ \E a \in Admins : invalidate_cache(a)
SpecWriters == Init /\ [][NextWriters]_vars
SpecWritersLive ==
    /\ SpecWriters
    /\ \A a \in Admins :
          /\ WF_vars(lock_acquire(a))
          /\ WF_vars(lock_wakeup(a))
          /\ WF_vars(\E body \in EmpBodies, e \in BOOLEAN : _save_raw_file(a, body, e))
          /\ WF_vars(update_nl_policy(a))
          /\ WF_vars(\E llm \in CodeReplies : update_nl_policy_generated(a, llm))
          /\ WF_vars(invalidate_cache(a))

\* SpecAbsent: SpecReaders on a tenant whose user table or compiled policy
\* may not have been written yet
InitAbsent ==
    /\ empFile \in [Tenants -> {NoFile(<<>>), File(1, "init", 0, <<RecLine("u1")>>)}]
    /\ schemaFile = [t \in Tenants |-> File(1, "init", 0, 1)]
    /\ nlFile = [t \in Tenants |-> File(1, "init", 0, 1)]
    /\ regoFile \in [Tenants -> {NoFile(EmptyText), File(1, "init", 1, 1)}]
    /\ InitProcesses
SpecAbsent == InitAbsent /\ [][NextReaders]_vars

\* SpecTenants: one request and two administrative calls on two tenants
TwoTenants == {"t1", "t2"}
InitTenants ==
    /\ empFile = [t \in TwoTenants |-> File(1, "init", 0, <<RecLine("u1")>>)]
    /\ schemaFile = [t \in TwoTenants |-> File(1, "init", 0, 1)]
    /\ nlFile = [t \in TwoTenants |-> File(1, "init", 0, 1)]
    /\ regoFile = [t \in TwoTenants |-> File(1, "init", 1, 1)]
    /\ _employee_cache = [t \in {} |-> EmptyMap]
    /\ _policy_cache = [t \in {} |-> EmptyText]
    /\ policy_write_locks = [t \in TwoTenants |-> FreeLock]
    /\ running = NoProc
    /\ chk = [p \in Checkers |-> IdleChk]
    /\ adm = [a \in Admins |-> IdleAdm]
    /\ syn = IdleSyn
    /\ reads = [t \in TwoTenants |-> [emp |-> 0, pol |-> 0]]
    /\ inval = [t \in TwoTenants |-> [emp |-> FALSE, pol |-> FALSE]]
    /\ opa_policies = [t \in TwoTenants |-> NoModule]

TenantsParseReplies == {ParseReply("json", ColVal("list", <<"c1">>))}
TenantsEvalReplies ==
    {EvalReply(FALSE, Verdict(TRUE, TRUE, ColVal("list", <<"c1">>), "empty", "r1"))}

NextTenants ==
    \/ \E t \in TwoTenants : check_query("q1", t, "u1")
    \/ \E reply \in TenantsParseReplies, ev \in TenantsEvalReplies :
          check_query_parsed("q1", reply, ev)
    \/ \E a \in Admins, ft \in FileTypes, t \in TwoTenants :
          admin_call(a, "update_policy", ft, t, TRUE)
    \/ \E a \in Admins : lock_acquire(a)
    \/ \E a \in Admins : lock_wakeup(a)
    \/ \E a \in Admins, body \in EmpBodies : _save_raw_file(a, body, FALSE)
    \/ \E a \in Admins : update_nl_policy(a)
    \/ \E a \in Admins, llm \in CodeReplies : update_nl_policy_generated(a, llm)
    \/ \E a \in Admins : invalidate_cache(a)
SpecTenants == InitTenants /\ [][NextTenants]_vars

\* SpecCache: two requests and two uploads of a compiled policy on two
\* tenants; each upload ends with invalidate_cache for its tenant
NextCache ==
    \/ \E p \in Checkers, t \in TwoTenants : check_query(p, t, "u1")
    \/ \E p \in Checkers, reply \in TenantsParseReplies, ev \in TenantsEvalReplies :
          check_query_parsed(p, reply, ev)
    \/ \E a \in Admins, t \in TwoTenants : admin_call(a, "update_policy", "rego", t, TRUE)
    \/ \E a \in Admins : lock_acquire(a)
    \/ \E a \in Admins : _save_raw_file(a, <<RecLine("u1")>>, FALSE)
    \/ \E a \in Admins : invalidate_cache(a)
SpecCache == InitTenants /\ [][NextCache]_vars

\* SpecMediate: one check_query against every kind of artifact set and every
\* reply of the oracle and the evaluator
MediateCheckers == {"q1"}
InitMediate ==
    /\ empFile \in [Tenants -> {NoFile(<<>>), File(1, "init", 0, <<RecLine("u1")>>),
                                File(1, "init", 0, <<RecLine("u1"), BadLine>>)}]
    /\ schemaFile = [t \in Tenants |-> File(1, "init", 0, 1)]
    /\ nlFile = [t \in Tenants |-> File(1, "init", 0, 1)]
    /\ regoFile \in [Tenants -> {NoFile(EmptyText), File(1, "init", 1, EmptyText),
                                 File(1, "init", 1, 1)}]
    /\ InitProcesses

NextMediate ==
    \/ \E p \in MediateCheckers, t \in Tenants, u \in Users : check_query(p, t, u)
    \/ \E p \in MediateCheckers, reply \in ParseReplies, ev \in EvalReplies :
          check_query_parsed(p, reply, ev)
    \/ \E p \in MediateCheckers, reply \in RewriteReplies : check_query_rewritten(p, reply)

SpecMediate == InitMediate /\ [][NextMediate]_vars

\* SpecMediateLive: SpecMediate with the scheduling the event loop gives: a
\* request that was made runs up to its first oracle call.  check_query passes
\* no timeout to acompletion or to the OPA client and wraps no call in
\* wait_for, so nothing in the code forces a pending call to end: the steps
\* that deliver a reply carry no fairness.
SpecMediateLive ==
    /\ SpecMediate
    /\ WF_vars(\E p \in MediateCheckers, t \in Tenants, u \in Users : check_query(p, t, u))

\* SpecSynth: one run of the self-correction loop against every reply of the
\* oracle and the evaluator
NextSynth ==
    \/ \E t \in Tenants : synth_start(t)
    \/ \E reply \in CodeReplies : synth_drafted(reply)
    \/ \E reply \in TestReplies, vin \in VerifyInputs(MaxBattery) \cup VerifyInputs(0) :
          synth_tests(reply, vin)
    \/ \E reply \in CodeReplies, vin \in VerifyInputs(Len(syn.test_cases)) :
          synth_fixed(reply, vin)

SpecSynth == Init /\ [][NextSynth]_vars

\* SpecEvaluator: one request and one run of the self-correction loop for the
\* same tenant share the evaluator; the battery is empty or holds one case
\* expecting DENY, which the evaluator answers with a refusal, a grant or an
\* exception
EvaluatorTestReplies ==
    {TestReply("unparsable", <<>>), TestReply("array", <<TestCase("DENY")>>)}
EvaluatorAnswers ==
    {EvalReply(TRUE, NoVerdict),
     EvalReply(FALSE, Verdict(TRUE, FALSE, ColVal("list", <<>>), "empty", "r1")),
     EvalReply(FALSE, Verdict(TRUE, TRUE, ColVal("list", <<"c1">>), "empty", "r1"))}
EvaluatorVerifyInputs(n) ==
    {VerifyInput(b, a) : b \in BOOLEAN,
                         a \in {x \in SeqsUpTo(EvaluatorAnswers, n) : Len(x) = n}}
NextEvaluator ==
    \/ \E t \in Tenants, u \in Users : check_query("q1", t, u)
    \/ \E reply \in SpecParseReplies, ev \in SpecEvalReplies :
          check_query_parsed("q1", reply, ev)
    \/ \E reply \in SpecRewriteReplies : check_query_rewritten("q1", reply)
    \/ \E t \in Tenants : synth_start(t)
    \/ \E reply \in CodeReplies : synth_drafted(reply)
    \/ \E reply \in EvaluatorTestReplies,
          vin \in EvaluatorVerifyInputs(0) \cup EvaluatorVerifyInputs(1) :
          synth_tests(reply, vin)
    \/ \E reply \in CodeReplies, vin \in EvaluatorVerifyInputs(Len(syn.test_cases)) :
          synth_fixed(reply, vin)
SpecEvaluator == Init /\ [][NextEvaluator]_vars

\* ------------------------------------------------------------------------
\* Properties of check_query (SpecMediate)
\* ------------------------------------------------------------------------
\* the verdict of request p carries allowed = true
AllowedVerdict(p) ==
    /\ chk[p].opa_calls > 0
    /\ ~chk[p].ev.raised
    /\ chk[p].ev.verdict.has_allowed
    /\ chk[p].ev.verdict.allowed

\* the elements of a column list, an absent key counting as the empty list
ColumnSet(v) == {v.items[i] : i \in DOMAIN v.items}

\* needsRewrite as stated: the sets of allowed and of requested columns
\* differ, or the row constraints are not empty
StatedNeedsRewrite(p) ==
    \/ ColumnSet(chk[p].ev.verdict.allowed_columns) # ColumnSet(chk[p].reply.columns)
    \/ chk[p].ev.verdict.row_constraints = "nonempty"

\* C1 as stated: for every verdict with allowed = true the returned kind is
\* ALLOW iff not needsRewrite, and REWRITE otherwise.
C1_AllowIffElseRewrite ==
    \A p \in Checkers :
        (chk[p].pc = "done" /\ AllowedVerdict(p)) =>
            /\ (chk[p].result.decision = "ALLOW") <=> ~StatedNeedsRewrite(p)
            /\ StatedNeedsRewrite(p) => chk[p].result.decision = "REWRITE"

\* C1 amended: for every verdict with allowed = true for which check_query
\* returns a decision, the kind is ALLOW iff not needsRewrite; when
\* needsRewrite holds the kind is REWRITE if the rewrite oracle call returned
\* a text and DENY if that call raised.
C1_AllowIffElseRewriteOrDeny ==
    \A p \in Checkers :
        (chk[p].pc = "done" /\ AllowedVerdict(p)) =>
            /\ (chk[p].result.decision = "ALLOW") <=> ~StatedNeedsRewrite(p)
            /\ StatedNeedsRewrite(p) =>
                  \/ chk[p].result.decision = "REWRITE" /\ chk[p].rw.kind = "text"
                  \/ chk[p].result.decision = "DENY" /\ chk[p].rw.kind \in {"raise", "null"}

\* an ALLOW for two column lists that differ as lists and are equal as sets
C1_Witness ==
    /\ chk["q1"].pc = "done"
    /\ AllowedVerdict("q1")
    /\ chk["q1"].result.decision = "ALLOW"
    /\ chk["q1"].ev.verdict.allowed_columns.items = <<"c1", "c2">>
    /\ chk["q1"].reply.columns.items = <<"c2", "c1">>

\* the stage failures of request p, read off the artifacts and the replies
UserListed(t, u) ==
    /\ empFile[t].exists
    /\ \E i \in DOMAIN empFile[t].body :
          empFile[t].body[i].kind = "rec" /\ empFile[t].body[i].user_id = u
IdentityFailed(p) ==
    ~UserListed(chk[p].policy_id, chk[p].user_id) \/ chk[p].user_info = NoUser
ParsingFailed(p) == chk[p].reply.kind \in {"raise", "nojson", "badjson"}
PolicyFailed(p) ==
    /\ chk[p].got_policy
    /\ ~regoFile[chk[p].policy_id].exists \/ regoFile[chk[p].policy_id].body = EmptyText
EvaluatorFailed(p) ==
    chk[p].opa_calls > 0 /\ (chk[p].ev.raised \/ ~chk[p].ev.verdict.has_allowed)

\* C2: when identity resolution, intent parsing, policy resolution or
\* evaluation fails, check_query returns DENY, never ALLOW or REWRITE.
C2_FailClosed ==
    \A p \in Checkers :
        (chk[p].pc # "idle"
            /\ (IdentityFailed(p) \/ ParsingFailed(p) \/ PolicyFailed(p) \/ EvaluatorFailed(p)))
        => chk[p].pc = "done" /\ chk[p].result.decision = "DENY"

\* a verdict without the 'allowed' field was denied
C2_Witness ==
    /\ chk["q1"].pc = "done"
    /\ chk["q1"].opa_calls = 1
    /\ ~chk["q1"].ev.raised
    /\ ~chk["q1"].ev.verdict.has_allowed
    /\ chk["q1"].result.decision = "DENY"
    /\ chk["q1"].result.reason = "OPA evaluation failed"

\* C3: no exception propagates out of check_query.
C3_NoExceptionEscapes == \A p \in Checkers : chk[p].pc # "raised"

\* ------------------------------------------------------------------------
\* Properties of the cache and the writes (Spec, SpecReaders)
\* ------------------------------------------------------------------------
\* this step reads t's policy.rego into the cache
PolicyFileRead(t) == reads'[t].pol = reads[t].pol + 1

\* nl_policy.txt holds rules newer than those policy.rego was stored for
NlNewRegoOld(t) == nlFile[t].exists /\ regoFile[t].src < nlFile[t].ver

\* C4: no reader observes nl_policy.txt holding the new rules while
\* policy.rego still holds the policy of the previous rules.
C4_WriteAtomicity ==
    [][\A t \in Tenants : PolicyFileRead(t) => ~NlNewRegoOld(t)]_vars

\* C5: policy.rego is not read into the cache while the tenant's write lock
\* is held.
C5_NoReadDuringWrite ==
    [][\A t \in Tenants : PolicyFileRead(t) => ~policy_write_locks[t].locked]_vars

\* C6: a check_query that starts after a natural-language update of its
\* tenant has returned is evaluated against the policy.rego text that update
\* committed or against a later one, never against an earlier text.
C6_FreshAfterUpdate ==
    \A p \in Checkers : chk[p].opa_calls > 0 => chk[p].rego_policy >= chk[p].floor

\* q2 loaded the old policy while the update ran; q1 started after the update
\* had returned and was evaluated against the new text
C6_Witness ==
    /\ chk["q2"].opa_calls = 1 /\ chk["q2"].rego_policy = 1 /\ chk["q2"].floor = 0
    /\ chk["q1"].opa_calls = 1 /\ chk["q1"].rego_policy = 2 /\ chk["q1"].floor = 2
    /\ adm["a1"].pc = "done" /\ adm["a1"].rego_ver = 2

\* C7: an administrative call that has mutated an artifact file has run
\* invalidate_cache when it returns.
C7_MutationThenInvalidation ==
    \A a \in Admins : (adm[a].pc = "done" /\ adm[a].mutated) => adm[a].invalidated

\* C8: between two invalidations each artifact file of a tenant is read at
\* most once, however many lookups miss.
C8_SinglePopulation ==
    \A t \in Tenants : reads[t].emp <= 1 /\ reads[t].pol <= 1

\* both requests looked both artifacts up, the files were read once each
C8_Witness ==
    /\ chk["q1"].got_policy /\ chk["q2"].got_policy
    /\ chk["q1"].policy_id = chk["q2"].policy_id
    /\ adm["a1"].pc = "idle"
    /\ reads["t1"] = [emp |-> 1, pol |-> 1]

\* C9: the first lookup after clear_cache returns what the file holds at
\* that time.
C9_CacheCoherence ==
    [][\A p \in Checkers :
         LET t == chk'[p].policy_id IN
         /\ (chk[p].pc = "idle" /\ chk'[p].pc # "idle" /\ inval[t].emp) =>
               /\ chk'[p].user_info = UserOf(t :> LoadEmployees(empFile[t]), t, chk'[p].user_id)
               /\ reads'[t].emp = 1
         /\ (~chk[p].got_policy /\ chk'[p].got_policy /\ inval[t].pol) =>
               /\ chk'[p].rego_policy = LoadPolicy(regoFile[t])
               /\ reads'[t].pol = 1]_vars

\* a request was served a policy text and a user record written after the
\* first load
C9_Witness ==
    /\ chk["q1"].got_policy /\ chk["q1"].rego_policy = 2
    /\ chk["q1"].user_info.ver = 2
    /\ ~inval["t1"].pol

\* ------------------------------------------------------------------------
\* Properties of the self-correction loop (SpecSynth)
\* ------------------------------------------------------------------------
\* C10: a run makes at most 5 Verify passes and at most 5 repair calls, and
\* is over once the fifth repair has been answered.
C10_RetryBudget ==
    /\ syn.verifies <= 5
    /\ syn.repairs <= 5
    /\ syn.attempt >= 5 => syn.pc = "done"

\* the budget was spent: five passes failed, five repairs were made
C10_Witness ==
    syn.pc = "done" /\ syn.verifies = 5 /\ syn.repairs = 5 /\ ~syn.validated

\* ------------------------------------------------------------------------
\* Claims C11 - C20
\* ------------------------------------------------------------------------
\* C11: a run of the self-correction loop always returns, and what it returns
\* is a non-empty policy document, whatever the oracle does.
C11_NonEmptyDocument ==
    /\ syn.pc # "raised"
    /\ syn.pc = "done" => syn.current_rego # EmptyText

\* the decision check_query's synthesis reaches for the verdict and the
\* columns request p was evaluated with
RequestTimeClass(p) == Synthesis(chk[p].ev.verdict, chk[p].reply.columns)

\* request p got a verdict that carries the 'allowed' field
Evaluated(p) == chk[p].opa_calls > 0 /\ ~EvaluationFailed(chk[p].ev)

\* C12: _run_verification_tests classifies an evaluator verdict as ALLOW,
\* REWRITE or DENY exactly as check_query decides for the same verdict and
\* the same requested columns.
C12_SameClassification ==
    \A p \in Checkers :
        (Evaluated(p) /\ RequestTimeClass(p) # "RAISE") =>
            actual_decision(chk[p].ev) = RequestTimeClass(p)

\* the rewrite oracle call of request p returned a text
RewriteSucceeded(p) == chk[p].rw.kind = "text"

\* C13 as stated: two runs of check_query that receive the same verdict and
\* the same parsed columns return the same kind.
C13_KindFunctionOfVerdictAndColumns ==
    \A p, q \in Checkers :
        (/\ chk[p].pc = "done" /\ chk[q].pc = "done"
         /\ Evaluated(p) /\ Evaluated(q)
         /\ chk[p].ev.verdict = chk[q].ev.verdict
         /\ chk[p].reply.columns = chk[q].reply.columns)
        => chk[p].result.decision = chk[q].result.decision

\* C13 amended: two runs that receive the same verdict and the same parsed
\* columns, and whose rewrite oracle calls (if made) both return a text or
\* both fail, return the same kind, whatever the returned text is.
C13_KindFunctionOfVerdictColumnsAndRewriteOutcome ==
    \A p, q \in Checkers :
        (/\ chk[p].pc = "done" /\ chk[q].pc = "done"
         /\ Evaluated(p) /\ Evaluated(q)
         /\ chk[p].ev.verdict = chk[q].ev.verdict
         /\ chk[p].reply.columns = chk[q].reply.columns
         /\ RewriteSucceeded(p) <=> RewriteSucceeded(q))
        => chk[p].result.decision = chk[q].result.decision

\* two requests of different users got the same verdict for the same columns;
\* their rewrite calls returned different texts, both were answered REWRITE
C13_Witness ==
    /\ chk["q1"].pc = "done" /\ chk["q2"].pc = "done"
    /\ Evaluated("q1") /\ chk["q1"].ev = chk["q2"].ev
    /\ chk["q1"].reply.columns = chk["q2"].reply.columns
    /\ chk["q1"].rw.kind = "text" /\ chk["q2"].rw.kind = "text"
    /\ chk["q1"].rw.text # chk["q2"].rw.text
    /\ chk["q1"].result.decision = "REWRITE" /\ chk["q2"].result.decision = "REWRITE"

\* C14: for a tenant without a user table, or a user the table does not
\* list, check_query returns DENY "User or Policy ID not found." and calls
\* neither the oracle nor the evaluator.
C14_UnknownUserDeniedWithoutCalls ==
    \A p \in Checkers :
        (chk[p].pc # "idle" /\ ~UserListed(chk[p].policy_id, chk[p].user_id)) =>
            /\ chk[p].pc = "done"
            /\ chk[p].result.decision = "DENY"
            /\ chk[p].result.reason = "User or Policy ID not found."
            /\ chk[p].oracle_calls = 0
            /\ chk[p].opa_calls = 0
            /\ chk[p].opa_request = NoRequest

\* a request for a tenant that has no employees.jsonl was denied
C14_Witness ==
    /\ ~empFile["t1"].exists
    /\ chk["q1"].pc = "done" /\ chk["q1"].policy_id = "t1"
    /\ chk["q1"].result.decision = "DENY"
    /\ chk["q1"].oracle_calls = 0

\* C15: a verdict with allowed = false gives DENY with the verdict's reason,
\* whatever its allowed_columns and row_constraints, and the rewrite oracle
\* is not called.
C15_DisallowedIsDenied ==
    \A p \in Checkers :
        (Evaluated(p) /\ ~chk[p].ev.verdict.allowed) =>
            /\ chk[p].pc = "done"
            /\ chk[p].result.decision = "DENY"
            /\ chk[p].ev.verdict.reason # "missing" =>
                  chk[p].result.reason = chk[p].ev.verdict.reason
            /\ chk[p].rw = NoRewrite
            /\ chk[p].oracle_calls = 1

\* a verdict with allowed = false, columns that differ from the requested
\* ones and row constraints was denied with its reason
C15_Witness ==
    /\ chk["q1"].pc = "done" /\ Evaluated("q1")
    /\ ~chk["q1"].ev.verdict.allowed
    /\ chk["q1"].ev.verdict.allowed_columns = ColVal("list", <<"c1">>)
    /\ chk["q1"].reply.columns = ColVal("list", <<"c1", "c2">>)
    /\ chk["q1"].ev.verdict.row_constraints = "nonempty"
    /\ chk["q1"].result = Deny("r1")

\* C16: REWRITE is returned only with a non-empty rewritten text; a rewrite
\* call that raises or whose reply is empty after cleaning gives DENY.
C16_RewriteFailsClosed ==
    \A p \in Checkers :
        (chk[p].pc = "done" /\ chk[p].result.decision = "REWRITE") =>
            /\ chk[p].rw.kind = "text"
            /\ chk[p].result.rewritten_query.text # <<>>

\* administrative call a is inside a write section of its tenant: it holds
\* the write lock (up to the release that ends _save_raw_file, or across the
\* generation of update_nl_policy)
InWriteSection(a) == adm[a].pc \in {"locked", "llm"}

\* C17: at any time at most one administrative call is inside a write
\* section of a tenant, and it holds the tenant's write lock.
C17_WritesSerialized ==
    \A t \in Tenants :
        LET inside == {a \in Admins : InWriteSection(a) /\ adm[a].policy_id = t}
        IN /\ Cardinality(inside) <= 1
           /\ inside # {} => policy_write_locks[t].locked

\* a1 is generating under the lock after it saved nl_policy.txt; a2 asked
\* for the same tenant's lock and waits
C17_Witness ==
    /\ adm["a1"].pc = "llm" /\ adm["a2"].pc = "waiting"
    /\ adm["a1"].policy_id = adm["a2"].policy_id
    /\ policy_write_locks["t1"].waiters = <<"a2">>

\* C18: the compiled policy an administrative natural-language update
\* commits to policy.rego has been pushed to the evaluator and verified
\* against the test battery before the commit.
C18_CommitAfterVerify ==
    \A a \in Admins : adm[a].rego_ver > 0 => adm[a].verified

\* C19: every check_query that awaits the oracle eventually returns a
\* Decision.
C19_EventuallyDecides ==
    \A p \in MediateCheckers : (chk[p].pc = "parse") ~> (chk[p].pc = "done")

\* C20: a Verify query hands the evaluator the same endpoint, rule path and
\* input document shape as check_query does for the same tenant.
C20_SameEvaluationContract ==
    syn.opa_request # NoRequest =>
        syn.opa_request = evaluate_policy(syn.policy_id, opa_input, policy_data_path(syn.policy_id))

\* ------------------------------------------------------------------------
\* Claims C21 - C30
\* ------------------------------------------------------------------------
\* the records of a user table whose every line parses: one per listed user
TableOf(f) ==
    [u \in {f.body[i].user_id : i \in {j \in DOMAIN f.body : f.body[j].kind = "rec"}}
        |-> [user_id |-> u, ver |-> f.ver]]

\* the employee map is what the table holds, or the empty sentinel
EmployeesResolved(entry, f) == entry = EmptyMap \/ (f.exists /\ entry = TableOf(f))

\* the policy text is what the file holds, or the empty sentinel
PolicyResolved(entry, f) == entry = EmptyText \/ (f.exists /\ entry = f.body)

\* C21: when a lookup returns, the map holds an entry for the tenant; an
\* entry stored by a miss is the content read from the file or the empty
\* sentinel.
C21_MissResolved ==
    [][\A p \in Checkers :
         LET t == chk'[p].policy_id IN
         /\ (chk[p].pc = "idle" /\ chk'[p].pc # "idle") =>
               /\ t \in DOMAIN _employee_cache'
               /\ t \notin DOMAIN _employee_cache =>
                     EmployeesResolved(_employee_cache'[t], empFile[t])
         /\ (~chk[p].got_policy /\ chk'[p].got_policy) =>
               /\ t \in DOMAIN _policy_cache'
               /\ t \notin DOMAIN _policy_cache =>
                     PolicyResolved(_policy_cache'[t], regoFile[t])]_vars

\* the user table was read into the cache as it is, policy.rego is absent and
\* the policy miss stored the empty sentinel
C21_Witness ==
    /\ chk["q1"].got_policy
    /\ ~regoFile["t1"].exists
    /\ "t1" \in DOMAIN _policy_cache /\ _policy_cache["t1"] = EmptyText
    /\ "t1" \in DOMAIN _employee_cache /\ _employee_cache["t1"] = TableOf(empFile["t1"])
    /\ reads["t1"] = [emp |-> 1, pol |-> 1]

\* C22: an administrative call waits for a write lock only behind a call on
\* the same tenant; a lock held for another tenant, even across an oracle
\* call, never makes it wait.
C22_NoCrossTenantWait ==
    \A a \in Admins :
        adm[a].pc = "waiting" =>
            \E b \in Admins \ {a} : adm[b].policy_id = adm[a].policy_id

\* a1 holds t1's write lock across its oracle call; meanwhile a2 wrote an
\* artifact of t2 and returned, and a request loaded t2's files
C22_Witness ==
    /\ adm["a1"].pc = "llm" /\ adm["a1"].policy_id = "t1"
    /\ policy_write_locks["t1"].locked
    /\ adm["a2"].pc = "done" /\ adm["a2"].policy_id = "t2" /\ adm["a2"].mutated
    /\ adm["a2"].nl_ver = 0
    /\ chk["q1"].policy_id = "t2" /\ chk["q1"].got_policy
    /\ reads["t2"] = [emp |-> 1, pol |-> 1]

C24_WellFormedDecision ==
    \A p \in Checkers :
        chk[p].pc = "done" =>
            LET d == chk[p].result IN
            /\ d.decision \in {"ALLOW", "DENY", "REWRITE"}
            /\ d.decision = "DENY" =>
                  /\ d.reason # "none" /\ d.reason # "missing"
                  /\ ~d.rewritten_query.present
            /\ d.decision \in {"ALLOW", "REWRITE"} =>
                  /\ d.rewritten_query.present
                  /\ d.opa_result
                  /\ AllowedVerdict(p)

\* a DENY for a verdict that carries no reason of its own
C24_Witness ==
    /\ chk["q1"].pc = "done" /\ Evaluated("q1")
    /\ ~chk["q1"].ev.verdict.allowed
    /\ chk["q1"].ev.verdict.reason = "missing"
    /\ chk["q1"].result = Deny("Access denied by policy.")

\* C25: every Repair loops back to Verify: each draft produced by
\* _llm_fix_rego is submitted to _run_verification_tests before the loop
\* returns, the draft returned on an exhausted budget included.
C25_ReturnedDraftWasVerified ==
    syn.pc = "done" =>
        /\ syn.verifies > 0
        /\ syn.verified_draft = syn.drafts
        /\ syn.verified = syn.current_rego

\* C26: when a Verify pass reports no failures the loop returns exactly the
\* draft just verified, at once, with no further oracle or evaluator call;
\* a draft is returned as validated only after a Verify pass of that same
\* draft produced an empty failure list.
C26_ValidatedIsVerified ==
    /\ (syn.verifies > 0 /\ syn.failures = <<>>) =>
          /\ syn.pc = "done" /\ syn.validated
          /\ syn.verified_draft = syn.drafts /\ syn.verified = syn.current_rego
          /\ syn.repairs = syn.verifies - 1
          /\ syn.drafts = syn.verifies
    /\ syn.validated =>
          /\ syn.verifies > 0 /\ syn.failures = <<>>
          /\ syn.verified_draft = syn.drafts

\* a draft validated after two repairs
C26_Witness ==
    /\ syn.pc = "done" /\ syn.validated
    /\ syn.repairs = 2 /\ syn.verifies = 3 /\ syn.drafts = 3
    /\ Len(syn.test_cases) = 1

\* C27: Verify collects every mismatch: a Verify pass has an empty failure
\* list only if the actual kind of every test case equals its expected kind.
C27_EveryMismatchReported ==
    (syn.verifies > 0 /\ syn.push_ok /\ syn.failures = <<>>) =>
        \A i \in 1..Len(syn.test_cases) :
            syn.actuals[i] = syn.test_cases[i].expected_decision

\* C28: when the push of the current draft is rejected the Verify pass
\* returns exactly one failure report and a pass count of 0 and evaluates no
\* test case.
C28_RejectedPushIsOneFailure ==
    (syn.verifies > 0 /\ ~syn.push_ok) =>
        /\ Len(syn.failures) = 1
        /\ syn.pass_count = 0
        /\ syn.evaluated = 0 /\ syn.actuals = <<>>

\* a rejected push of the first draft with a one-case battery
C28_Witness ==
    /\ syn.verifies = 1 /\ ~syn.push_ok
    /\ Len(syn.test_cases) = 1
    /\ syn.failures = <<"compilation error">>
    /\ syn.pc = "fix"

\* the stage at which request p was denied, "none" if it was not
DeniedAt(p) ==
    IF chk[p].pc # "done" \/ chk[p].result.decision # "DENY" THEN "none"
    ELSE IF chk[p].oracle_calls = 0 THEN "identity"
    ELSE IF ~chk[p].got_policy THEN "parsing"
    ELSE IF chk[p].opa_calls = 0 THEN "policy"
    ELSE IF chk[p].rw = NoRewrite THEN "evaluation"
    ELSE "rewrite"

\* C29: the stages of check_query run in order and short-circuit: the intent
\* oracle is called only for a resolved user; the evaluator only after the
\* intent was parsed and a non-empty policy was obtained; the rewrite oracle
\* only for a verdict with allowed = true for which needsRewrite holds; a
\* stage that returned DENY is followed by no oracle or evaluator call.
C29_StagesInOrder ==
    \A p \in Checkers :
        /\ chk[p].oracle_calls > 0 => chk[p].user_info # NoUser
        /\ chk[p].got_policy => chk[p].reply.kind = "json"
        /\ chk[p].opa_calls > 0 =>
              /\ chk[p].reply.kind = "json"
              /\ chk[p].got_policy /\ chk[p].rego_policy # EmptyText
        /\ (chk[p].pc = "rewrite" \/ chk[p].rw # NoRewrite \/ chk[p].oracle_calls = 2) =>
              /\ AllowedVerdict(p)
              /\ StatedNeedsRewrite(p)
        /\ chk[p].oracle_calls <= 2 /\ chk[p].opa_calls <= 1
        /\ DeniedAt(p) = "identity" => chk[p].reply = NoReply /\ ~chk[p].got_policy
        /\ DeniedAt(p) = "parsing" =>
              chk[p].reply.kind # "json" /\ chk[p].oracle_calls = 1 /\ chk[p].opa_calls = 0
        /\ DeniedAt(p) = "policy" => chk[p].oracle_calls = 1 /\ chk[p].ev = NoEval
        /\ DeniedAt(p) = "evaluation" => chk[p].oracle_calls = 1

\* a request denied at policy resolution: one oracle call, no evaluator call
C29_Witness ==
    /\ DeniedAt("q1") = "policy"
    /\ chk["q1"].result = Deny("Policy file not found.")
    /\ chk["q1"].reply.kind = "json"
    /\ chk["q1"].oracle_calls = 1 /\ chk["q1"].opa_calls = 0

\* C30: an ALLOW carries the original request text unchanged and no rewrite
\* oracle call was made for the request.
C30_AllowKeepsQuery ==
    \A p \in Checkers :
        (chk[p].pc = "done" /\ chk[p].result.decision = "ALLOW") =>
            /\ chk[p].result.rewritten_query = [present |-> TRUE, text |-> OriginalQuery]
            /\ chk[p].rw = NoRewrite
            /\ chk[p].oracle_calls = 1

\* an ALLOW for a verdict without row constraints whose columns are the
\* requested ones
C30_Witness ==
    /\ chk["q1"].pc = "done" /\ chk["q1"].result.decision = "ALLOW"
    /\ chk["q1"].ev.verdict.allowed_columns = ColVal("list", <<"c1">>)
    /\ chk["q1"].reply.columns = ColVal("list", <<"c1">>)
    /\ chk["q1"].ev.verdict.row_constraints = "empty"
    /\ chk["q1"].oracle_calls = 1

\* ------------------------------------------------------------------------
\* Claims C31 - C39
\* ------------------------------------------------------------------------
\* the entry of tenant t is the empty sentinel
EmployeeSentinel(t) == t \in DOMAIN _employee_cache /\ _employee_cache[t] = EmptyMap
PolicySentinel(t) == t \in DOMAIN _policy_cache /\ _policy_cache[t] = EmptyText

\* C31: negative caching: once the empty sentinel is stored for a tenant's
\* user table or policy, every later lookup returns the sentinel without
\* reading the file again until clear_cache runs for the tenant, so requests
\* keep getting DENY (user not found / policy file not found) even if the
\* file has appeared in the meantime.
C31_NegativeCaching ==
    [][\A t \in Tenants :
        /\ (EmployeeSentinel(t) /\ t \in DOMAIN _employee_cache') =>
              /\ _employee_cache'[t] = EmptyMap
              /\ reads'[t].emp = reads[t].emp
        /\ (PolicySentinel(t) /\ t \in DOMAIN _policy_cache') =>
              /\ _policy_cache'[t] = EmptyText
              /\ reads'[t].pol = reads[t].pol
        /\ \A p \in Checkers :
              /\ (EmployeeSentinel(t) /\ chk[p].pc = "idle" /\ chk'[p].pc # "idle"
                    /\ chk'[p].policy_id = t) =>
                    chk'[p].result = Deny("User or Policy ID not found.")
              /\ (PolicySentinel(t) /\ chk[p].pc = "parse" /\ chk[p].policy_id = t
                    /\ chk'[p].got_policy) =>
                    chk'[p].result = Deny("Policy file not found.")
      ]_vars

\* a request for a user listed in a table that was written after the failed
\* read is denied from the sentinel; the file was read once, before it existed
C31_Witness ==
    /\ EmployeeSentinel("t1")
    /\ empFile["t1"].exists /\ empFile["t1"].by = "a1"
    /\ "u1" \in DOMAIN LoadEmployees(empFile["t1"])
    /\ reads["t1"].emp = 1
    /\ chk["q1"].pc = "done" /\ chk["q1"].emp_ver = 0
    /\ chk["q2"].pc = "done" /\ chk["q2"].user_id = "u1"
    /\ chk["q2"].emp_ver = empFile["t1"].ver
    /\ chk["q2"].result = Deny("User or Policy ID not found.")

\* administrative call a is queued on the write lock of some tenant
Queued(a) ==
    \E t \in DOMAIN policy_write_locks :
        \E i \in DOMAIN policy_write_locks[t].waiters : policy_write_locks[t].waiters[i] = a

\* C32: lock usage is deadlock-free: no coroutine asks for a tenant's write
\* lock while it holds it (only a coroutine suspended in acquire is queued
\* on a lock), and every acquisition of a write lock eventually succeeds,
\* provided the oracle calls made under the lock return.
C32_AcquisitionsSucceed ==
    /\ [](\A a \in Admins : Queued(a) => (adm[a].pc = "waiting" /\ ~InWriteSection(a)))
    /\ \A a \in Admins : (adm[a].pc \in {"acquire", "waiting"}) ~> (adm[a].pc = "locked")

\* a call that had to queue behind a create_policy call got the lock and
\* returned
C32_Witness ==
    /\ adm["a1"].route = "create_policy" /\ adm["a1"].pc = "done"
    /\ adm["a2"].waited /\ adm["a2"].pc = "done" /\ adm["a2"].status = "success"
    /\ adm["a2"].policy_id = adm["a1"].policy_id
    /\ policy_write_locks["t1"] = FreeLock

\* Rego generation raised inside the update_nl_policy call of a
GenerationRaised(a) ==
    adm[a].pc = "done" /\ adm[a].status = "error" /\ adm[a].nl_ver > 0

\* C33: if Rego generation raises inside update_nl_policy the exception
\* reaches the administrative caller and the tenant's write lock is
\* released: the step that ends the oracle call with an exception ends the
\* call with an error and leaves the lock free, a lock is held only by a call
\* inside its critical section, and a later write to the tenant acquires the
\* lock and completes.
C33_RaiseReleasesLock ==
    /\ [][\A a \in Admins :
            (adm[a].pc = "llm" /\ adm'[a].pc = "done") =>
                /\ adm'[a].status = "error"
                /\ ~policy_write_locks'[adm[a].policy_id].locked]_vars
    /\ [](\A t \in Tenants :
            policy_write_locks[t].locked =>
                \E a \in Admins : InWriteSection(a) /\ adm[a].policy_id = t)
    /\ \A a \in Admins, b \in Admins :
          (GenerationRaised(a) /\ adm[b].pc \in {"acquire", "waiting"}) ~> (adm[b].pc = "done")

\* a write that queued behind an update whose generation raised has taken
\* the lock after it and returned with success
C33_Witness ==
    /\ GenerationRaised("a1")
    /\ adm["a2"].waited /\ adm["a2"].pc = "done" /\ adm["a2"].status = "success"
    /\ adm["a2"].route = "update_policy"
    /\ adm["a2"].nl_ver > adm["a1"].nl_ver

\* C34: update_nl_policy does not roll back: when Rego generation raises
\* after the NL file was saved, nl_policy.txt keeps the new rules, policy.rego
\* keeps what it held (or stays absent), and this NL-new / compiled-old state
\* is what the files hold once the lock is released.
C34_NoRollback ==
    [][\A a \in Admins :
        (adm[a].pc = "llm" /\ adm'[a].pc = "done") =>
            LET t == adm[a].policy_id IN
            /\ nlFile'[t] = nlFile[t]
            /\ nlFile'[t].exists /\ nlFile'[t].by = a /\ nlFile'[t].ver = adm[a].nl_ver
            /\ regoFile'[t] = regoFile[t] /\ regoFile'[t].by # a
            /\ regoFile'[t].src < nlFile'[t].ver
            /\ ~policy_write_locks'[t].locked
      ]_vars

\* a request that started after the failed update had returned read the old
\* policy.rego while nl_policy.txt held the new rules
C34_Witness ==
    /\ GenerationRaised("a1") /\ adm["a1"].route = "update_policy"
    /\ adm["a2"].pc = "idle"
    /\ nlFile["t1"].by = "a1" /\ NlNewRegoOld("t1")
    /\ ~policy_write_locks["t1"].locked
    /\ "a1" \in chk["q1"].returned
    /\ chk["q1"].got_policy /\ reads["t1"].pol = 1
    /\ chk["q1"].rego_policy = regoFile["t1"].body
    /\ chk["q1"].rego_ver = 1

\* C35: when the reply to the test prompt is not parsable as a JSON array
\* the battery is empty: no test case is ever evaluated, a Verify pass whose
\* push is accepted has no failures, and when the initial draft compiles the
\* loop returns it as validated after a single attempt.
C35_EmptyBatteryValidates ==
    (syn.test_reply = "unparsable" /\ syn.verifies > 0) =>
        /\ syn.test_cases = <<>>
        /\ syn.evaluated = 0 /\ syn.actuals = <<>> /\ syn.opa_request = NoRequest
        /\ syn.push_ok => (syn.pc = "done" /\ syn.validated /\ syn.failures = <<>>)
        /\ (syn.push_ok /\ syn.verifies = 1) =>
              /\ syn.attempt = 0 /\ syn.repairs = 0
              /\ syn.drafts = 1 /\ syn.verified_draft = 1

\* the initial draft returned as validated against an empty battery
C35_Witness ==
    /\ syn.test_reply = "unparsable"
    /\ syn.pc = "done" /\ syn.validated
    /\ syn.verifies = 1 /\ syn.drafts = 1 /\ syn.current_rego = 1
    /\ syn.evaluated = 0

\* C36: each mediation verdict is computed against the policy text the same
\* check_query call fetched from the cache: the rule is evaluated in the
\* module that call pushed, never in a draft a concurrent Verify pass pushed
\* under the same endpoint.
C36_EvaluatedAgainstFetchedPolicy ==
    \A p \in Checkers :
        (chk[p].opa_calls > 0 /\ ~chk[p].ev.raised) =>
            /\ chk[p].queried = Module("policy", chk[p].rego_policy)
            /\ chk[p].rego_policy # EmptyText

\* a request evaluated after a Verify pass had loaded a draft under the
\* tenant's endpoint, while the loop awaits the repair
C36_Witness ==
    /\ syn.pc = "fix" /\ syn.push_ok /\ syn.policy_id = "t1"
    /\ chk["q1"].pc = "done" /\ Evaluated("q1") /\ chk["q1"].policy_id = "t1"
    /\ chk["q1"].queried.kind = "policy"
    /\ opa_policies["t1"] = chk["q1"].queried

\* employees.jsonl has a non-blank line that does not parse or lacks user_id
HasBadLine(f) == f.exists /\ \E i \in DOMAIN f.body : f.body[i].kind = "bad"

\* C37: loading a user table is all-or-nothing: a lookup that misses the
\* cache and finds a bad line in employees.jsonl stores the empty map, the
\* records of the lines before it included, and the request is denied as
\* not found without any oracle call, whoever the user is; the requests that
\* follow until the cache is invalidated get the same.
C37_AllOrNothingLoad ==
    [][\A p \in Checkers :
        (chk[p].pc = "idle" /\ chk'[p].pc # "idle") =>
            LET t == chk'[p].policy_id IN
            ((t \notin DOMAIN _employee_cache /\ HasBadLine(empFile[t]))
             \/ (EmployeeSentinel(t) /\ HasBadLine(empFile[t]))) =>
                /\ _employee_cache'[t] = EmptyMap
                /\ chk'[p].user_info = NoUser
                /\ chk'[p].result = Deny("User or Policy ID not found.")
                /\ chk'[p].oracle_calls = 0
      ]_vars

\* a table with a good line for u1 followed by a bad line: the request that
\* loaded it and the next one, both for u1, are denied
C37_Witness ==
    /\ HasBadLine(empFile["t1"]) /\ empFile["t1"].body[1] = RecLine("u1")
    /\ EmployeeSentinel("t1") /\ reads["t1"].emp = 1
    /\ \A p \in Checkers :
          /\ chk[p].pc = "done" /\ chk[p].user_id = "u1"
          /\ chk[p].emp_ver = empFile["t1"].ver
          /\ chk[p].result = Deny("User or Policy ID not found.")

\* the entries of every tenant but t are the same in both maps
OthersKept(old, new, t) ==
    /\ DOMAIN new \ {t} = DOMAIN old \ {t}
    /\ \A x \in DOMAIN old \ {t} : new[x] = old[x]

\* C38: clear_cache(T) removes T's entry from both maps and leaves the
\* entries of every other tenant unchanged; for a tenant without entries
\* (never looked up, or cleared just before) it changes nothing, and the
\* call returns normally.
C38_ClearCacheFrame ==
    [][\A a \in Admins :
        (adm[a].pc = "invalidate" /\ adm'[a].pc # "invalidate") =>
            LET t == adm[a].policy_id IN
            /\ t \notin DOMAIN _employee_cache' /\ t \notin DOMAIN _policy_cache'
            /\ OthersKept(_employee_cache, _employee_cache', t)
            /\ OthersKept(_policy_cache, _policy_cache', t)
            /\ (t \notin DOMAIN _employee_cache /\ t \notin DOMAIN _policy_cache) =>
                  (_employee_cache' = _employee_cache /\ _policy_cache' = _policy_cache)
            /\ adm'[a].pc = "done" /\ adm'[a].status = "success"
      ]_vars

\* t1 was looked up and then cleared by both uploads; t2, whose lookup began
\* before either upload returned, keeps both entries
C38_Witness ==
    /\ \A a \in Admins : adm[a].pc = "done" /\ adm[a].policy_id = "t1" /\ adm[a].invalidated
    /\ chk["q1"].policy_id = "t1" /\ chk["q1"].got_policy
    /\ chk["q2"].policy_id = "t2" /\ chk["q2"].got_policy /\ chk["q2"].returned = {}
    /\ "t1" \notin DOMAIN _employee_cache /\ "t1" \notin DOMAIN _policy_cache
    /\ "t2" \in DOMAIN _employee_cache /\ "t2" \in DOMAIN _policy_cache
    /\ _employee_cache["t2"] # EmptyMap /\ _policy_cache["t2"] # EmptyText

\* both administrative calls were create_policy calls for tenant t and have
\* returned their success response
BothCreated(t) ==
    \A a \in Admins :
        /\ adm[a].route = "create_policy" /\ adm[a].policy_id = t
        /\ adm[a].pc = "done" /\ adm[a].status = "success"

\* the four artifacts of t were written by call w, and policy.rego was
\* generated from the rules, the schema and the user table w wrote
AllFrom(t, w) ==
    /\ empFile[t].by = w /\ schemaFile[t].by = w
    /\ nlFile[t].by = w /\ regoFile[t].by = w
    /\ regoFile[t].src = nlFile[t].ver /\ adm[w].nl_ver = nlFile[t].ver
    /\ adm[w].context = [schema |-> schemaFile[t].ver, employees |-> empFile[t].ver]

====
